---- MODULE Spec2Model ----
(***************************************************************************)
(* The directive dispatcher and free-form input handler of IRust          *)
(* (src/irust/parser.rs) as a state machine over the session Body, the    *)
(* manifest dependency list and the value returned to the caller.         *)
(*                                                                         *)
(* Text is modelled as a sequence of one-character strings so that        *)
(* trimming, prefix/suffix tests, whitespace splitting and index parsing  *)
(* are computed the way the Rust code computes them.                      *)
(***************************************************************************)
EXTENDS Integers, Sequences, FiniteSets, TLC

(* ----------------------------- bounds ---------------------------------- *)

\* Largest number of fragments the Body is allowed to grow to.
MaxBody == 2

\* Largest number of specifier tokens recorded in the manifest.
MaxManifest == 1

(* ------------------------ literals of parser.rs ------------------------ *)

SUCCESS == <<"O", "k", "!">>

S_help == <<":", "h", "e", "l", "p">>
S_reset == <<":", "r", "e", "s", "e", "t">>
S_show == <<":", "s", "h", "o", "w">>
S_pop == <<":", "p", "o", "p">>
S_irust == <<":", "i", "r", "u", "s", "t">>
P_shell == <<":", ":">>
P_edit == <<":", "e", "d", "i", "t">>
P_add == <<":", "a", "d", "d">>
P_load == <<":", "l", "o", "a", "d">>
P_reload == <<":", "r", "e", "l", "o", "a", "d">>
P_type == <<":", "t", "y", "p", "e">>
P_del == <<":", "d", "e", "l">>
P_cd == <<":", "c", "d">>

FUNCTION_DEF == <<"f", "n", " ">>
ASYNC_FUNCTION_DEF == <<"a", "s", "y", "n", "c", " ", "f", "n", " ">>
ENUM_DEF == <<"e", "n", "u", "m", " ">>
STRUCT_DEF == <<"s", "t", "r", "u", "c", "t", " ">>
TRAIT_DEF == <<"t", "r", "a", "i", "t", " ">>
IMPL == <<"i", "m", "p", "l", " ">>
PUB == <<"p", "u", "b", " ">>
ATTRIBUTE == <<"#">>

(* --------------------------- text helpers ------------------------------ *)

\* char::is_whitespace, restricted to the characters used here
IsWhitespace(c) == c \in {" ", "\t", "\n", "\r"}

\* str::starts_with
StartsWith(s, p) == Len(s) >= Len(p) /\ SubSeq(s, 1, Len(p)) = p

\* str::ends_with(char)
EndsWithChar(s, c) == Len(s) > 0 /\ s[Len(s)] = c

\* str::contains(char)
ContainsChar(s, c) == \E i \in 1..Len(s) : s[i] = c

\* str::contains(&str)
ContainsStr(s, p) == \E i \in 1..(Len(s) - Len(p) + 1) : SubSeq(s, i, i + Len(p) - 1) = p

RECURSIVE TrimStart(_)
TrimStart(s) == IF s # <<>> /\ IsWhitespace(Head(s)) THEN TrimStart(Tail(s)) ELSE s

RECURSIVE TrimEnd(_)
TrimEnd(s) ==
    IF s # <<>> /\ IsWhitespace(s[Len(s)]) THEN TrimEnd(SubSeq(s, 1, Len(s) - 1)) ELSE s

\* str::trim
Trim(s) == TrimEnd(TrimStart(s))

\* str::split_whitespace: the maximal runs of non-whitespace characters
RECURSIVE SplitAcc(_, _, _)
SplitAcc(s, cur, acc) ==
    IF s = <<>>
    THEN IF cur = <<>> THEN acc ELSE Append(acc, cur)
    ELSE IF IsWhitespace(Head(s))
         THEN SplitAcc(Tail(s), <<>>, IF cur = <<>> THEN acc ELSE Append(acc, cur))
         ELSE SplitAcc(Tail(s), Append(cur, Head(s)), acc)

SplitWhitespace(s) == SplitAcc(s, <<>>, <<>>)

\* str::split(char): every piece between separators, empty pieces included
RECURSIVE SplitCharAcc(_, _, _, _)
SplitCharAcc(s, c, cur, acc) ==
    IF s = <<>> THEN Append(acc, cur)
    ELSE IF Head(s) = c
         THEN SplitCharAcc(Tail(s), c, <<>>, Append(acc, cur))
         ELSE SplitCharAcc(Tail(s), c, Append(cur, Head(s)), acc)

SplitChar(s, c) == SplitCharAcc(s, c, <<>>, <<>>)

\* Iterator::skip(1)
Skip1(seq) == IF seq = <<>> THEN <<>> ELSE Tail(seq)

\* Iterator::last
LastOf(seq) == seq[Len(seq)]

(* ------------------- external toolchain (cargo) ------------------------ *)

MAIN_OPEN == <<"f", "n", " ", "m", "a", "i", "n", "(", ")", " ", "{">>
MAIN_CLOSE == <<"}">>

\* The toolchain is an oracle over program text: a program does not compile
\* when it contains the ill-formed token "?", and panics when run if it
\* evaluates a division by the literal zero.
CompileFails(text) == ContainsChar(text, "?")

Panics(text) == ContainsStr(text, <<"/", "0">>)

\* build only
cargo_build(text) == IF CompileFails(text) THEN "CompileError" ELSE "Success"

\* build and run
cargo_run(text) ==
    IF CompileFails(text) THEN "CompileError"
    ELSE IF Panics(text) THEN "RuntimeFailure"
    ELSE "Success"

IsDigit(c) == c \in {"0", "1", "2", "3", "4", "5", "6", "7", "8", "9"}

\* The value a successful run prints for the tail expression, as an
\* Option: <<>> is None (unit-like), <<v>> is Some(v).  Integer literals
\* print themselves.
PrintedValue(frag) ==
    LET t == Trim(frag)
    IN  IF t # <<>> /\ \A i \in 1..Len(t) : IsDigit(t[i]) THEN <<t>> ELSE <<>>

(* ----------------------- fragment store (repl) ------------------------- *)

\* render(): the scaffold's opening line, every fragment on a line of its
\* own in Body order, the scaffold's closing line.
RECURSIVE RenderLines(_)
RenderLines(b) ==
    IF b = <<>> THEN <<>> ELSE Head(b) \o <<"\n">> \o RenderLines(Tail(b))

Render(b) == MAIN_OPEN \o <<"\n">> \o RenderLines(b) \o MAIN_CLOSE

\* append(fragment)
ReplInsert(b, frag) == Append(b, frag)

\* clear()
ReplReset == <<>>

\* pop_last(): removes the newest fragment, a no-op on an empty Body
ReplPop(b) == IF b = <<>> THEN b ELSE SubSeq(b, 1, Len(b) - 1)

DigitValue(c) ==
    CASE c = "0" -> 0 [] c = "1" -> 1 [] c = "2" -> 2 [] c = "3" -> 3 [] c = "4" -> 4
      [] c = "5" -> 5 [] c = "6" -> 6 [] c = "7" -> 7 [] c = "8" -> 8 [] c = "9" -> 9

RECURSIVE DigitsValue(_, _)
DigitsValue(s, acc) ==
    IF s = <<>> THEN acc ELSE DigitsValue(Tail(s), 10 * acc + DigitValue(Head(s)))

\* str::parse::<usize>: an optional "+" followed by one or more digits
ParseUsize(tok) ==
    LET digits == IF tok # <<>> /\ Head(tok) = "+" THEN Tail(tok) ELSE tok
    IN  IF digits # <<>> /\ \A i \in 1..Len(digits) : IsDigit(digits[i])
        THEN [ok |-> TRUE, val |-> DigitsValue(digits, 0)]
        ELSE [ok |-> FALSE, val |-> 0]

RemoveAt(b, k) == SubSeq(b, 1, k - 1) \o SubSeq(b, k + 1, Len(b))

\* delete(index): 1-based display position; InvalidIndex when the text is
\* not a number or the number is not a position of the Body
ReplDel(b, tok) ==
    LET n == ParseUsize(tok)
    IN  IF n.ok /\ n.val >= 1 /\ n.val <= Len(b)
        THEN [ok |-> TRUE, body |-> RemoveAt(b, n.val)]
        ELSE [ok |-> FALSE, body |-> b]

\* show(): the rendered program
ReplShow(b) == Render(b)

\* eval(fragment): synthesize the candidate Body + fragment, build and run
\* it, commit the fragment on Success only
ReplEval(b, frag) ==
    LET v == cargo_run(Render(Append(b, frag)))
    IN  [verdict |-> v,
         value   |-> IF v = "Success" THEN PrintedValue(frag) ELSE <<>>,
         body    |-> IF v = "Success" THEN Append(b, frag) ELSE b]

\* build(): rebuild of the current Body
ReplBuild(b) == cargo_build(Render(b))

\* add_dep(dep): hand the specifiers to the manifest; the manifest tool
\* rejects a request without any specifier
ReplAddDep(m, dep) ==
    IF dep = <<>> THEN [ok |-> FALSE, manifest |-> m]
    ELSE [ok |-> TRUE, manifest |-> Append(m, dep)]

\* eval_build(code): build the candidate Body + code without committing it
ReplEvalBuild(b, code) == cargo_build(Render(Append(b, code)))

(* ------------------------ formatting, entry point ---------------------- *)

RECURSIVE CountChar(_, _)
CountChar(s, c) ==
    IF s = <<>> THEN 0 ELSE (IF Head(s) = c THEN 1 ELSE 0) + CountChar(Tail(s), c)

\* the formatter's layout: a space between ")" and "{"
RECURSIVE Layout(_)
Layout(s) ==
    IF s = <<>> THEN <<>>
    ELSE IF Len(s) >= 2 /\ s[1] = ")" /\ s[2] = "{"
         THEN <<")", " ">> \o Layout(Tail(s))
         ELSE <<Head(s)>> \o Layout(Tail(s))

\* cargo_fmt(code): the formatted text; the formatter gives up on a text
\* whose braces do not balance
cargo_fmt(code) ==
    IF CountChar(code, "{") # CountChar(code, "}")
    THEN [ok |-> FALSE, text |-> <<>>]
    ELSE [ok |-> TRUE, text |-> Layout(Trim(code))]

\* first position at which p occurs in s, 0 when it does not
RECURSIVE FindFrom(_, _, _)
FindFrom(s, p, i) ==
    IF i + Len(p) - 1 > Len(s) THEN 0
    ELSE IF SubSeq(s, i, i + Len(p) - 1) = p THEN i
    ELSE FindFrom(s, p, i + 1)

\* position of the "}" that closes the block entered before position i
RECURSIVE MatchClose(_, _, _)
MatchClose(s, i, depth) ==
    IF i > Len(s) THEN 0
    ELSE IF s[i] = "{" THEN MatchClose(s, i + 1, depth + 1)
    ELSE IF s[i] = "}"
         THEN IF depth = 1 THEN i ELSE MatchClose(s, i + 1, depth - 1)
    ELSE MatchClose(s, i + 1, depth)

\* remove_main(code): the text without the opening line of the entry point
\* and without the brace that closes it
remove_main(code) ==
    LET start == FindFrom(code, MAIN_OPEN, 1)
        open == start + Len(MAIN_OPEN)
        close == MatchClose(code, open, 1)
    IN  IF start = 0 \/ close = 0 THEN code
        ELSE SubSeq(code, 1, start - 1) \o SubSeq(code, open, close - 1)
             \o SubSeq(code, close + 1, Len(code))

(* ---------------------------- filesystem ------------------------------- *)

\* A path is absolute when it starts at the root
IsAbsolute(p) == p # <<>> /\ Head(p) = "/"

D_a == <<"a">>
D_b == <<"b">>
D_lib == <<"l", "i", "b">>
D_ln == <<"l", "n">>
\* a directory name that is not valid UTF-8
D_raw == <<"<FF>">>

\* The directories that exist, as component sequences from the root
FsDirs == { <<>>, <<D_a>>, <<D_b>>, <<D_a, D_lib>>, <<D_b, D_lib>>, <<D_a, D_raw>> }

\* The symbolic links and their targets
FsLinks == [l \in { <<D_a, D_ln>> } |-> <<D_a, D_raw>>]

\* The working directories the session may be started in
Cwds == { <<D_a>>, <<D_b>> }

RECURSIVE PathText(_)
PathText(comps) ==
    IF comps = <<>> THEN <<>> ELSE <<"/">> \o Head(comps) \o PathText(Tail(comps))

\* Path::to_str: None for a path that is not valid UTF-8
ToStr(comps) ==
    IF \E i \in 1..Len(comps) : comps[i] = D_raw THEN <<>>
    ELSE <<IF comps = <<>> THEN <<"/">> ELSE PathText(comps)>>

RECURSIVE Resolve(_, _)
Resolve(cur, rest) ==
    IF rest = <<>> THEN [ok |-> TRUE, comps |-> cur]
    ELSE LET c == Head(rest)
             next == Append(cur, c)
         IN  IF c = <<>> \/ c = <<".">> THEN Resolve(cur, Tail(rest))
             ELSE IF c = <<".", ".">>
                  THEN Resolve(IF cur = <<>> THEN cur ELSE SubSeq(cur, 1, Len(cur) - 1),
                               Tail(rest))
             ELSE IF next \in DOMAIN FsLinks THEN Resolve(FsLinks[next], Tail(rest))
             ELSE IF next \in FsDirs THEN Resolve(next, Tail(rest))
             ELSE [ok |-> FALSE, comps |-> <<>>]

\* Path::canonicalize: resolved against the working directory unless
\* absolute, every component must exist, links are followed
Canonicalize(dir, p) ==
    IF p = <<>> THEN [ok |-> FALSE, comps |-> <<>>]
    ELSE Resolve(IF IsAbsolute(p) THEN <<>> ELSE dir, SplitChar(p, "/"))

\* file names
F_g == <<"g">>
F_e == <<"e">>
F_r == <<"r">>
F_u == <<"u">>
F_n == <<"n">>

\* The files that exist in every working directory and their bytes: a
\* program with an entry point, a program that does not compile, bytes that
\* are not UTF-8, a text the formatter cannot parse.  F_n does not exist.
FsFiles ==
    [f \in {F_g, F_e, F_r, F_u} |->
        CASE f = F_g -> <<"f", "n", " ", "m", "a", "i", "n", "(", ")", "{", "c", ";", "}", "\n">>
          [] f = F_e -> <<"?", ";", "\n">>
          [] f = F_r -> <<"<FF>">>
          [] f = F_u -> <<"{", "\n">>]

\* std::fs::read: the bytes of the file the path names, from the working
\* directory unless the path is absolute
FsRead(dir, p) ==
    LET parts == SplitChar(p, "/")
        name == parts[Len(parts)]
        parent == Resolve(IF IsAbsolute(p) THEN <<>> ELSE dir,
                          SubSeq(parts, 1, Len(parts) - 1))
    IN  IF parent.ok /\ parent.comps \in Cwds /\ name \in DOMAIN FsFiles
        THEN [ok |-> TRUE, bytes |-> FsFiles[name]]
        ELSE [ok |-> FALSE, bytes |-> <<>>]

\* String::from_utf8
FromUtf8(bytes) ==
    IF \E i \in 1..Len(bytes) : bytes[i] = "<FF>"
    THEN [ok |-> FALSE, text |-> <<>>]
    ELSE [ok |-> TRUE, text |-> bytes]

(* -------------------------- type introspection ------------------------- *)

\* the grave accent of the source is written as an apostrophe, which a
\* string of this language can hold
TYPE_FOUND_MSG == <<"e", "x", "p", "e", "c", "t", "e", "d", " ", "'", "(", ")", "'", ",", " ", "f", "o", "u", "n", "d", " ">>
EMPTY_TYPE_MSG == <<"d", "e", "v", " ", "[", "u", "n", "o", "p", "t", "i", "m", "i", "z", "e", "d", " ", "+", " ", "d", "e", "b", "u", "g", "i", "n", "f", "o", "]">>
FOUND == <<"f", "o", "u", "n", "d">>
FOUND_SP == <<"f", "o", "u", "n", "d", " ">>
UKNOWN == <<"U", "k", "n", "o", "w", "n">>
UNIT_TYPE == <<"(", ")">>

\* str::trim_start_matches(&str): every repetition of the prefix is removed
RECURSIVE TrimStartMatches(_, _)
TrimStartMatches(s, p) ==
    IF p # <<>> /\ StartsWith(s, p)
    THEN TrimStartMatches(SubSeq(s, Len(p) + 1, Len(s)), p)
    ELSE s

\* the shadow program eval_in_tmp_repl builds on a clone of the Body: the
\* target bound to the unit type, so that the compiler names its type
PROBE_OPEN == <<"l", "e", "t", " ", "_", ":", "(", ")", "=">>
ShadowProgram(b, target) == Render(Append(b, PROBE_OPEN \o Trim(target) \o <<";">>))

\* what the toolchain prints for a shadow program: the mismatch diagnostic
\* for a target that has a value, the build banner for a unit target, an
\* unrelated error for a program that does not compile
R_mismatch == <<"e", "r", "r", "o", "r", ":", " ", "e", "x", "p", "e", "c", "t", "e", "d", " ", "'", "(", ")", "'", ",", " ", "f", "o", "u", "n", "d", " ", "i", "n", "t", "e", "g", "e", "r", "\n">>
R_banner == <<"F", "i", "n", "i", "s", "h", "e", "d", " ", "d", "e", "v", " ", "[", "u", "n", "o", "p", "t", "i", "m", "i", "z", "e", "d", " ", "+", " ", "d", "e", "b", "u", "g", "i", "n", "f", "o", "]", "\n">>
R_error == <<"e", "r", "r", "o", "r", ":", " ", "u", "n", "k", "n", "o", "w", "n", " ", "s", "t", "a", "r", "t", " ", "o", "f", " ", "t", "o", "k", "e", "n", "\n">>
TypeDiagnostic(b, target) ==
    IF CompileFails(ShadowProgram(b, target)) \/ Trim(target) = <<>> THEN R_error
    ELSE IF PrintedValue(target) # <<>> THEN R_mismatch
    ELSE R_banner

\* last position at which p occurs in s, 0 when it does not
RECURSIVE RFindFrom(_, _, _)
RFindFrom(s, p, i) ==
    IF i < 1 THEN 0
    ELSE IF i + Len(p) - 1 <= Len(s) /\ SubSeq(s, i, i + Len(p) - 1) = p THEN i
    ELSE RFindFrom(s, p, i - 1)

\* str::rsplit(p).next(): what follows the last occurrence of p, the whole
\* text when p does not occur
RSplitFirst(s, p) ==
    LET i == RFindFrom(s, p, Len(s))
    IN  IF i = 0 THEN s ELSE SubSeq(s, i + Len(p), Len(s))

\* the lines of a text, the pieces between line feeds
Lines(text) == SplitChar(text, "\n")

\* lines().rev().find(contains): the last line that contains p
RECURSIVE LastLineWith(_, _)
LastLineWith(ls, p) ==
    IF ContainsStr(ls[Len(ls)], p) THEN ls[Len(ls)]
    ELSE LastLineWith(SubSeq(ls, 1, Len(ls) - 1), p)

\* the type name show_type reads out of the toolchain output
VarType(raw_out) ==
    IF ContainsStr(raw_out, TYPE_FOUND_MSG)
    THEN RSplitFirst(LastLineWith(Lines(raw_out), FOUND), FOUND_SP)
    ELSE IF ContainsStr(raw_out, EMPTY_TYPE_MSG) THEN UNIT_TYPE
    ELSE UKNOWN

(* ------------------------ working file, editor ------------------------ *)

\* update_from_main_file(): the Body re-derived from the working file.  The
\* text must still be the scaffold around one fragment per line, and the
\* program it holds must build.
ReplUpdateFromMainFile(text) ==
    LET ls == Lines(text)
        frags == SubSeq(ls, 2, Len(ls) - 1)
    IN  IF Len(ls) >= 2 /\ ls[1] = MAIN_OPEN /\ ls[Len(ls)] = MAIN_CLOSE
           /\ cargo_build(text) = "Success"
        THEN [ok |-> TRUE, body |-> frags]
        ELSE [ok |-> FALSE, body |-> <<>>]

\* cargo_fmt_file(MAIN_FILE): the working file after the formatter ran on
\* it; the file is left as it is when the formatter gives up
cargo_fmt_file(text) == IF cargo_fmt(text).ok THEN cargo_fmt(text).text ELSE text

E_vi == <<"v", "i">>

\* The programs that can be spawned
EditorBins == {E_vi}

\* What the user may do in the editor: save the file as it is, replace the
\* program by another one, by one that does not compile, or by a text that
\* is not a program.
EditorActs == {"keep", "rewrite", "break", "garble"}

\* the working file when the editor exits
Edited(text, act) ==
    CASE act = "keep"    -> text
      [] act = "rewrite" -> Render(<<<<"c", ";">>>>)
      [] act = "break"   -> Render(<<<<"?", ";">>>>)
      [] act = "garble"  -> <<"x">>

\* The I/O faults one :edit call may meet: none, the terminal cannot be
\* written, the working file cannot be written, waiting on the editor fails
EditFaults == {"none", "terminal", "write", "wait"}

\* What one :edit call may meet: a fault, or no fault and a session of the
\* user in the editor
EditEnvs ==
    {[fault |-> f, act |-> "keep"] : f \in EditFaults \ {"none"}}
        \cup {[fault |-> "none", act |-> a] : a \in EditorActs}

(* ------------------------------ inputs --------------------------------- *)

PATH_FLAG == <<"-", "-", "p", "a", "t", "h">>

I_declB == <<" ", "b", ";">>
I_declFn == <<"f", "n", " ", "f">>
I_declBad == <<"?", ";">>
I_expr7 == <<"7">>
I_exprUnit == <<"f", "(", ")">>
I_exprDiv == <<"1", "/", "0">>
I_exprBad == <<"?">>
I_blank == <<" ">>
I_del == <<":", "d", "e", "l">>
I_del1 == <<":", "d", "e", "l", " ", "1">>
I_del2 == <<":", "d", "e", "l", " ", "2">>
I_del0 == <<":", "d", "e", "l", " ", "0">>
I_delX == <<":", "d", "e", "l", " ", "x">>
I_add == <<":", "a", "d", "d">>
I_addRel == <<":", "a", "d", "d", " ", "-", "-", "p", "a", "t", "h", " ", "l", "i", "b">>
I_addDot == <<":", "a", "d", "d", " ", "-", "-", "p", "a", "t", "h", " ", ".", "/", "l", "i", "b">>
I_addMissing == <<":", "a", "d", "d", " ", "-", "-", "p", "a", "t", "h", " ", ".", "/", "n", "o">>
I_load == <<":", "l", "o", "a", "d">>
I_loadGood == <<":", "l", "o", "a", "d", " ", "g">>
I_loadBad == <<":", "l", "o", "a", "d", " ", "e">>
I_loadRaw == <<":", "l", "o", "a", "d", " ", "r">>
I_loadUnfmt == <<":", "l", "o", "a", "d", " ", "u">>
I_loadMissing == <<":", "l", "o", "a", "d", " ", "n">>
I_reload == <<":", "r", "e", "l", "o", "a", "d">>
I_edit == <<":", "e", "d", "i", "t">>
I_editVi == <<":", "e", "d", "i", "t", " ", "v", "i">>
I_editNo == <<":", "e", "d", "i", "t", " ", "n", "o">>
I_type7 == <<":", "t", "y", "p", "e", " ", "7">>
I_typeUnit == <<":", "t", "y", "p", "e", " ", "f", "(", ")">>
I_typeBad == <<":", "t", "y", "p", "e", " ", "?">>
I_addMixed == <<":", "a", "d", "d", " ", ".", "/", "l", "i", "b", " ", ".", "/", "n", "o">>
I_addLink == <<":", "a", "d", "d", " ", "-", "-", "p", "a", "t", "h", " ", ".", "/", "l", "n">>

\* The lines the user may type
Inputs ==
    { I_blank, I_declB, I_declFn, I_declBad,
      I_expr7, I_exprUnit, I_exprDiv, I_exprBad,
      S_reset, S_show, S_pop,
      I_del, I_del1, I_del2, I_del0, I_delX,
      I_add, I_addRel, I_addDot, I_addMissing, I_addMixed, I_addLink,
      I_load, I_loadGood, I_loadBad, I_loadRaw, I_loadUnfmt, I_loadMissing, I_reload,
      I_edit, I_editVi, I_editNo,
      I_type7, I_typeUnit, I_typeBad }

(* ------------------------------- state --------------------------------- *)

VARIABLES
    buffer,     \* self.buffer: the line being processed
    body,       \* self.repl: the Session Body, a sequence of fragments
    manifest,   \* the Manifest Dependency List, one entry per request
    cwd,        \* the process working directory
    lastLoaded, \* self.known_paths: the last loaded path, <<>> when none
    alive,      \* the process is running
    result,     \* the Result<Printer, IRustError> returned by parse()
    steps,      \* history: the external steps the last call performed
    prev,       \* history: the Body when the last call started
    entered,    \* history: the declaration inputs accepted so far
    onlyDecl    \* history: every call so far was a building declaration

vars == <<buffer, body, manifest, cwd, lastLoaded, alive, result, steps, prev, entered, onlyDecl>>

\* Printer::default()
PrinterDefault == [ok |-> TRUE, kind |-> "Empty", text |-> <<>>]

\* Printer::new(PrinterItem::new(SUCCESS, PrinterItemType::Ok))
PrinterSuccess == [ok |-> TRUE, kind |-> "Ok", text |-> SUCCESS]

\* Ok(printer) carrying one item of the given kind
PrinterItem(kind, text) == [ok |-> TRUE, kind |-> kind, text |-> text]

\* Err(IRustError)
Error(kind) == [ok |-> FALSE, kind |-> kind, text |-> <<>>]

Init ==
    /\ buffer = <<>>
    /\ body = <<>>
    /\ manifest = <<>>
    /\ cwd \in Cwds
    /\ lastLoaded = <<>>
    /\ alive = TRUE
    /\ result = PrinterDefault
    /\ steps = <<>>
    /\ prev = <<>>
    /\ entered = <<>>
    /\ onlyDecl = TRUE

(* ------------------------------ dispatch ------------------------------- *)

\* IRust::parse: the handler a line is routed to, first match wins
parse(cmd) ==
    IF cmd = S_help THEN "help"
    ELSE IF cmd = S_reset THEN "reset"
    ELSE IF cmd = S_show THEN "show"
    ELSE IF cmd = S_pop THEN "pop"
    ELSE IF cmd = S_irust THEN "irust"
    ELSE IF StartsWith(cmd, P_shell) THEN "run_cmd"
    ELSE IF StartsWith(cmd, P_edit) THEN "extern_edit"
    ELSE IF StartsWith(cmd, P_add) THEN "add_dep"
    ELSE IF StartsWith(cmd, P_load) THEN "load"
    ELSE IF StartsWith(cmd, P_reload) THEN "reload"
    ELSE IF StartsWith(cmd, P_type) THEN "show_type"
    ELSE IF StartsWith(cmd, P_del) THEN "del"
    ELSE IF StartsWith(cmd, P_cd) THEN "cd"
    ELSE "parse_second_order"

\* the classification made of the line as typed
Classify_Untrimmed(line) ==
    LET b == line
    IN  IF b = <<>> THEN "Empty"
        ELSE IF \/ EndsWithChar(b, ";")
                \/ StartsWith(b, FUNCTION_DEF)
                \/ StartsWith(b, ASYNC_FUNCTION_DEF)
                \/ StartsWith(b, ENUM_DEF)
                \/ StartsWith(b, STRUCT_DEF)
                \/ StartsWith(b, TRAIT_DEF)
                \/ StartsWith(b, IMPL)
                \/ StartsWith(b, ATTRIBUTE)
                \/ StartsWith(b, PUB)
             THEN "Declaration"
             ELSE "Expression"

\* The classification parse_second_order makes of the trimmed line
Classify(line) ==
    LET b == Trim(line)
    IN  IF b = <<>> THEN "Empty"
        ELSE IF \/ EndsWithChar(b, ";")
                \/ StartsWith(b, FUNCTION_DEF)
                \/ StartsWith(b, ASYNC_FUNCTION_DEF)
                \/ StartsWith(b, ENUM_DEF)
                \/ StartsWith(b, STRUCT_DEF)
                \/ StartsWith(b, TRAIT_DEF)
                \/ StartsWith(b, IMPL)
                \/ StartsWith(b, ATTRIBUTE)
                \/ StartsWith(b, PUB)
             THEN "Declaration"
             ELSE "Expression"

\* format_eval_output: an erroneous output is shown as the error, a printed
\* value as the value, nothing otherwise
FormatEvalOutput(r) ==
    IF r.verdict # "Success" THEN PrinterItem(r.verdict, <<>>)
    ELSE IF r.value # <<>> THEN PrinterItem("Out", r.value[1])
    ELSE PrinterDefault

\* history kept by every call that is not a building declaration
NotDecl == entered' = <<>> /\ onlyDecl' = FALSE

\* a running process accepts a line into self.buffer; the Body it meets is
\* remembered
Accept(line) == alive /\ buffer' = line /\ prev' = body

(* ------------------------------ handlers ------------------------------- *)

\* reset() written with the call pop() makes
ResetOutcome_Pops(b) == [body |-> ReplPop(b), result |-> PrinterSuccess]

\* what reset() leaves as the Body and returns
ResetOutcome(b) == [body |-> ReplReset, result |-> PrinterSuccess]

reset ==
    \E line \in Inputs :
        /\ parse(line) = "reset"
        /\ Accept(line)
        /\ body' = ResetOutcome(body).body
        /\ result' = ResetOutcome(body).result
        /\ NotDecl
        /\ steps' = <<>>
        /\ UNCHANGED <<manifest, cwd, lastLoaded, alive>>

\* pop() refusing an empty Body
PopOutcome_Strict(b) ==
    IF b = <<>> THEN [body |-> b, result |-> Error("EmptyStore")]
    ELSE [body |-> ReplPop(b), result |-> PrinterSuccess]

\* what pop() leaves as the Body and returns: the store's answer is not
\* looked at
PopOutcome(b) == [body |-> ReplPop(b), result |-> PrinterSuccess]

pop ==
    \E line \in Inputs :
        /\ parse(line) = "pop"
        /\ Accept(line)
        /\ body' = PopOutcome(body).body
        /\ result' = PopOutcome(body).result
        /\ NotDecl
        /\ steps' = <<>>
        /\ UNCHANGED <<manifest, cwd, lastLoaded, alive>>

\* del() dropping the store's error
DelOutcome_IgnoresError(b, line) ==
    LET toks == SplitWhitespace(line)
    IN  IF toks = <<>> THEN [body |-> b, result |-> PrinterSuccess]
        ELSE [body |-> ReplDel(b, LastOf(toks)).body, result |-> PrinterSuccess]

\* del() removing the newest fragment whatever the index
DelOutcome_Pops(b, line) ==
    LET toks == SplitWhitespace(line)
    IN  IF toks = <<>> THEN [body |-> b, result |-> PrinterSuccess]
        ELSE LET r == ReplDel(b, LastOf(toks))
             IN  IF r.ok THEN [body |-> ReplPop(b), result |-> PrinterSuccess]
                 ELSE [body |-> b, result |-> Error("InvalidIndex")]

\* what del() leaves as the Body and returns: the last whitespace token of
\* the line is the index, the store's error is propagated
DelOutcome(b, line) ==
    LET toks == SplitWhitespace(line)
    IN  IF toks = <<>> THEN [body |-> b, result |-> PrinterSuccess]
        ELSE LET r == ReplDel(b, LastOf(toks))
             IN  IF r.ok THEN [body |-> r.body, result |-> PrinterSuccess]
                 ELSE [body |-> b, result |-> Error("InvalidIndex")]

del ==
    \E line \in Inputs :
        /\ parse(line) = "del"
        /\ Accept(line)
        /\ body' = DelOutcome(body, line).body
        /\ result' = DelOutcome(body, line).result
        /\ NotDecl
        /\ steps' = <<>>
        /\ UNCHANGED <<manifest, cwd, lastLoaded, alive>>

show ==
    \E line \in Inputs :
        /\ parse(line) = "show"
        /\ Accept(line)
        /\ result' = PrinterItem("Code", ReplShow(body))
        /\ NotDecl
        /\ steps' = <<>>
        /\ UNCHANGED <<body, manifest, cwd, lastLoaded, alive>>

\* the specifier list of an :add line after the canonicalization loop
NormalizeDep(dir, dep) ==
    [i \in 1..Len(dep) |->
        IF ContainsChar(dep[i], "/")
        THEN LET full_p == Canonicalize(dir, dep[i])
             IN  IF full_p.ok /\ ToStr(full_p.comps) # <<>>
                 THEN ToStr(full_p.comps)[1]
                 ELSE dep[i]
        ELSE dep[i]]

\* the canonicalization loop returns early with the I/O error
CanonicalizeFails(dir, dep) ==
    \E i \in 1..Len(dep) : ContainsChar(dep[i], "/") /\ ~Canonicalize(dir, dep[i]).ok

\* add_dep() recording the specifiers before it canonicalizes them
AddDepOutcome_AddsFirst(m, b, dir, line) ==
    LET dep == Skip1(SplitWhitespace(line))
        raw == ReplAddDep(m, dep)
        added == ReplAddDep(m, NormalizeDep(dir, dep))
    IN  IF ~raw.ok
        THEN [manifest |-> m, result |-> Error("AddFailed"), steps |-> <<"cargo_add">>]
        ELSE IF CanonicalizeFails(dir, dep)
        THEN [manifest |-> raw.manifest, result |-> Error("InvalidDependencyPath"),
              steps |-> <<"cargo_add", "canonicalize">>]
        ELSE [manifest |-> added.manifest,
              result |-> IF ReplBuild(b) = "Success" THEN PrinterSuccess
                         ELSE Error("BuildFailed"),
              steps |-> <<"cargo_add", "canonicalize", "build">>]

\* add_dep() taking the specifiers back when the rebuild fails
AddDepOutcome_RollsBack(m, b, dir, line) ==
    LET dep == Skip1(SplitWhitespace(line))
        added == ReplAddDep(m, NormalizeDep(dir, dep))
    IN  IF CanonicalizeFails(dir, dep)
        THEN [manifest |-> m, result |-> Error("InvalidDependencyPath"),
              steps |-> <<"canonicalize">>]
        ELSE IF ~added.ok
        THEN [manifest |-> m, result |-> Error("AddFailed"),
              steps |-> <<"canonicalize", "cargo_add">>]
        ELSE IF ReplBuild(b) = "Success"
        THEN [manifest |-> added.manifest, result |-> PrinterSuccess,
              steps |-> <<"canonicalize", "cargo_add", "build">>]
        ELSE [manifest |-> m, result |-> Error("BuildFailed"),
              steps |-> <<"canonicalize", "cargo_add", "build">>]

\* what add_dep() leaves and returns: the specifiers are canonicalized,
\* handed to the manifest, and the Body is rebuilt, in that order; each
\* step's failure returns at once
AddDepOutcome(m, b, dir, line) ==
    LET dep == Skip1(SplitWhitespace(line))
        added == ReplAddDep(m, NormalizeDep(dir, dep))
    IN  IF CanonicalizeFails(dir, dep)
        THEN [manifest |-> m, result |-> Error("InvalidDependencyPath"),
              steps |-> <<"canonicalize">>]
        ELSE IF ~added.ok
        THEN [manifest |-> m, result |-> Error("AddFailed"),
              steps |-> <<"canonicalize", "cargo_add">>]
        ELSE [manifest |-> added.manifest,
              result |-> IF ReplBuild(b) = "Success" THEN PrinterSuccess
                         ELSE Error("BuildFailed"),
              steps |-> <<"canonicalize", "cargo_add", "build">>]

add_dep ==
    \E line \in Inputs :
        /\ parse(line) = "add_dep"
        /\ Accept(line)
        /\ LET o == AddDepOutcome(manifest, body, cwd, line)
           IN  /\ manifest' = o.manifest
               /\ result' = o.result
               /\ steps' = o.steps
        /\ Len(manifest') <= MaxManifest
        /\ NotDecl
        /\ UNCHANGED <<body, cwd, lastLoaded, alive>>

\* load_inner() building before it resets: a failure keeps the old Body
LoadInnerOutcome_ResetsLate(b, dir, path) ==
    LET file == FsRead(dir, path)
        decoded == FromUtf8(file.bytes)
        formatted == cargo_fmt(decoded.text)
        code == remove_main(formatted.text)
    IN  IF file.ok /\ decoded.ok /\ formatted.ok
           /\ ReplEvalBuild(ReplReset, code) = "Success"
        THEN [body |-> ReplInsert(ReplReset, code), last |-> <<path>>,
              result |-> PrinterSuccess, steps |-> <<"read", "fmt", "build", "reset">>]
        ELSE [body |-> b, last |-> <<path>>, result |-> Error("IoFailure"),
              steps |-> <<"read">>]

\* what load_inner() leaves and returns: the path is saved and the Body
\* reset before the file is read, decoded, formatted, stripped and built
LoadInnerOutcome(b, dir, path) ==
    LET file == FsRead(dir, path)
        decoded == FromUtf8(file.bytes)
        formatted == cargo_fmt(decoded.text)
        code == remove_main(formatted.text)
        fail(kind, done) ==
            [body |-> ReplReset, last |-> <<path>>, result |-> Error(kind), steps |-> done]
    IN  IF ~file.ok THEN fail("IoFailure", <<"reset", "read">>)
        ELSE IF ~decoded.ok THEN fail("NonUtf8Content", <<"reset", "read">>)
        ELSE IF ~formatted.ok THEN fail("FormatFailed", <<"reset", "read", "fmt">>)
        ELSE IF ReplEvalBuild(ReplReset, code) = "CompileError"
             THEN [body |-> ReplReset, last |-> <<path>>,
                   result |-> PrinterItem("CompileError", <<>>),
                   steps |-> <<"reset", "read", "fmt", "build">>]
             ELSE [body |-> ReplInsert(ReplReset, code), last |-> <<path>>,
                   result |-> PrinterSuccess,
                   steps |-> <<"reset", "read", "fmt", "build">>]

\* load() resetting before it looks for the path
LoadOutcome_ResetsFirst(b, last, dir, line) ==
    LET toks == SplitWhitespace(line)
    IN  IF Len(toks) < 2
        THEN [body |-> ReplReset, last |-> last, result |-> Error("MissingArgument"),
              steps |-> <<"reset">>]
        ELSE LoadInnerOutcome(b, dir, toks[2])

\* what load() leaves and returns: the second whitespace token is the path
LoadOutcome(b, last, dir, line) ==
    LET toks == SplitWhitespace(line)
    IN  IF Len(toks) < 2
        THEN [body |-> b, last |-> last, result |-> Error("MissingArgument"), steps |-> <<>>]
        ELSE LoadInnerOutcome(b, dir, toks[2])

\* what reload() leaves and returns: the saved path is loaded again
ReloadOutcome(b, last, dir) ==
    IF last = <<>>
    THEN [body |-> b, last |-> last, result |-> Error("MissingArgument"), steps |-> <<>>]
    ELSE LoadInnerOutcome(b, dir, last[1])

load ==
    \E line \in Inputs :
        /\ parse(line) = "load"
        /\ Accept(line)
        /\ LET o == LoadOutcome(body, lastLoaded, cwd, line)
           IN  /\ body' = o.body
               /\ lastLoaded' = o.last
               /\ result' = o.result
               /\ steps' = o.steps
        /\ NotDecl
        /\ UNCHANGED <<manifest, cwd, alive>>

reload ==
    \E line \in Inputs :
        /\ parse(line) = "reload"
        /\ Accept(line)
        /\ LET o == ReloadOutcome(body, lastLoaded, cwd)
           IN  /\ body' = o.body
               /\ lastLoaded' = o.last
               /\ result' = o.result
               /\ steps' = o.steps
        /\ NotDecl
        /\ UNCHANGED <<manifest, cwd, alive>>

\* show_type() keeping the shadow session's probe in the Body
ShowTypeOutcome_Merges(b, line, up) ==
    LET variable == TrimStartMatches(line, P_type)
    IN  IF ~up
        THEN [body |-> b, alive |-> FALSE, result |-> Error("Panic"),
              steps |-> <<"shadow", "run", "panic">>]
        ELSE [body |-> Append(b, PROBE_OPEN \o Trim(variable) \o <<";">>), alive |-> TRUE,
              result |-> PrinterItem("Ok", VarType(TypeDiagnostic(b, variable))),
              steps |-> <<"shadow", "run">>]

\* what show_type() leaves and returns: the shadow session is run and
\* dropped; a toolchain that cannot be launched makes the unwrap() on the
\* run's result panic
ShowTypeOutcome(b, line, up) ==
    LET variable == TrimStartMatches(line, P_type)
    IN  IF ~up
        THEN [body |-> b, alive |-> FALSE, result |-> Error("Panic"),
              steps |-> <<"shadow", "run", "panic">>]
        ELSE [body |-> b, alive |-> TRUE,
              result |-> PrinterItem("Ok", VarType(TypeDiagnostic(b, variable))),
              steps |-> <<"shadow", "run">>]

show_type ==
    \E line \in Inputs, up \in BOOLEAN :
        /\ parse(line) = "show_type"
        /\ Accept(line)
        /\ LET o == ShowTypeOutcome(body, line, up)
           IN  /\ body' = o.body
               /\ alive' = o.alive
               /\ result' = o.result
               /\ steps' = o.steps
        /\ NotDecl
        /\ UNCHANGED <<manifest, cwd, lastLoaded>>

\* extern_edit() returning the re-derivation error without resetting
ExternEditOutcome_KeepsBody(b, line, fault, act) ==
    LET toks == SplitWhitespace(line)
        handed == IF Len(b) > 0 THEN cargo_fmt_file(Render(b)) ELSE Render(b)
        update == ReplUpdateFromMainFile(Edited(handed, act))
    IN  IF Len(toks) < 2 \/ fault # "none" \/ toks[2] \notin EditorBins
        THEN [body |-> b, result |-> Error("IoFailure"), steps |-> <<>>]
        ELSE IF update.ok
             THEN [body |-> update.body, result |-> PrinterItem("Ok", SUCCESS),
                   steps |-> <<"spawn", "wait", "update">>]
             ELSE [body |-> b, result |-> Error("ResyncFailed"),
                   steps |-> <<"spawn", "wait", "update", "update_failed">>]

\* extern_edit() resetting as soon as the editor is known
ExternEditOutcome_ResetsEarly(b, line, fault, act) ==
    LET toks == SplitWhitespace(line)
        handed == IF Len(b) > 0 THEN cargo_fmt_file(Render(b)) ELSE Render(b)
        update == ReplUpdateFromMainFile(Edited(handed, act))
    IN  IF Len(toks) < 2
        THEN [body |-> b, result |-> Error("MissingArgument"), steps |-> <<>>]
        ELSE IF fault # "none" \/ toks[2] \notin EditorBins
        THEN [body |-> ReplReset, result |-> Error("IoFailure"), steps |-> <<"reset">>]
        ELSE IF update.ok
             THEN [body |-> update.body, result |-> PrinterItem("Ok", SUCCESS),
                   steps |-> <<"reset", "spawn", "wait", "update">>]
             ELSE [body |-> ReplReset, result |-> Error("ResyncFailed"),
                   steps |-> <<"reset", "spawn", "wait", "update", "update_failed">>]

\* what extern_edit() leaves and returns: the second whitespace token is
\* the editor; the Body is written out, formatted when it is not empty,
\* edited, and re-derived from the file; a failure to re-derive it resets
ExternEditOutcome(b, line, fault, act) ==
    LET toks == SplitWhitespace(line)
        written == Render(b)
        handed == IF Len(b) > 0 THEN cargo_fmt_file(written) ELSE written
        update == ReplUpdateFromMainFile(Edited(handed, act))
        fmt == IF Len(b) > 0 THEN <<"fmt_file">> ELSE <<>>
        fail(kind, done) == [body |-> b, result |-> Error(kind), steps |-> done]
    IN  IF Len(toks) < 2 THEN fail("MissingArgument", <<>>)
        ELSE IF fault = "terminal" THEN fail("IoFailure", <<"terminal">>)
        ELSE IF fault = "write" THEN fail("IoFailure", <<"terminal", "write">>)
        ELSE IF toks[2] \notin EditorBins
             THEN fail("IoFailure", <<"terminal", "write">> \o fmt \o <<"spawn">>)
        ELSE IF fault = "wait"
             THEN fail("IoFailure", <<"terminal", "write">> \o fmt \o <<"spawn", "wait">>)
        ELSE IF update.ok
             THEN [body |-> update.body, result |-> PrinterItem("Ok", SUCCESS),
                   steps |-> <<"terminal", "write">> \o fmt
                             \o <<"spawn", "wait", "update">>]
             ELSE [body |-> ReplReset, result |-> Error("ResyncFailed"),
                   steps |-> <<"terminal", "write">> \o fmt
                             \o <<"spawn", "wait", "update", "update_failed", "reset">>]

extern_edit ==
    \E line \in Inputs, env \in EditEnvs :
        /\ parse(line) = "extern_edit"
        /\ Accept(line)
        /\ LET o == ExternEditOutcome(body, line, env.fault, env.act)
           IN  /\ body' = o.body
               /\ result' = o.result
               /\ steps' = o.steps
        /\ Len(body') <= MaxBody
        /\ NotDecl
        /\ UNCHANGED <<manifest, cwd, lastLoaded, alive>>

\* the Declaration branch inserting the trimmed line
SecondOrderDeclaration_Trimmed(b, line) ==
    [body |-> ReplInsert(b, Trim(line)), result |-> PrinterDefault]

\* the Declaration branch: the untrimmed line is inserted, nothing is
\* built and an empty printer is returned
SecondOrderDeclaration(b, line) ==
    [body |-> ReplInsert(b, line), result |-> PrinterDefault]

\* the Expression branch inserting the line as the Declaration branch does
SecondOrderExpression_Inserts(b, line) ==
    [body |-> ReplInsert(b, line), result |-> FormatEvalOutput(ReplEval(b, line))]

\* the Expression branch discarding the formatted output
SecondOrderExpression_Silent(b, line) ==
    [body |-> ReplEval(b, line).body, result |-> PrinterDefault]

\* the Expression branch: the untrimmed line is evaluated by the store and
\* the formatted output, if any, is returned
SecondOrderExpression(b, line) ==
    LET r == ReplEval(b, line)
    IN  [body |-> r.body, result |-> FormatEvalOutput(r)]

\* parse_second_order on the line held by self.buffer
SecondOrder(line) ==
        /\ Accept(line)
        /\ IF Classify(line) = "Empty"
           THEN body' = body /\ result' = PrinterDefault /\ NotDecl
           ELSE IF Classify(line) = "Declaration"
           THEN /\ body' = SecondOrderDeclaration(body, line).body
                /\ result' = SecondOrderDeclaration(body, line).result
                /\ IF onlyDecl /\ cargo_build(Render(Append(body, line))) = "Success"
                   THEN entered' = Append(entered, line) /\ onlyDecl' = TRUE
                   ELSE NotDecl
           ELSE /\ body' = SecondOrderExpression(body, line).body
                /\ result' = SecondOrderExpression(body, line).result
                /\ NotDecl
        /\ Len(body') <= MaxBody
        /\ steps' = IF Classify(line) = "Expression" THEN <<"run">> ELSE <<>>
        /\ UNCHANGED <<manifest, cwd, lastLoaded, alive>>

parse_second_order ==
    \E line \in Inputs :
        /\ parse(line) = "parse_second_order"
        /\ SecondOrder(line)

\* the handlers of the fragment store and of the manifest
Next == reset \/ pop \/ del \/ show \/ add_dep \/ parse_second_order

Spec == Init /\ [][Next]_vars

\* the free-form handler and the handlers that go through the filesystem
NextFiles == parse_second_order \/ load \/ reload \/ show_type \/ extern_edit

SpecFiles == Init /\ [][NextFiles]_vars

(* ------------------------------- claims -------------------------------- *)

\* the last call was a free-form line of the given class
LastWas(class) == parse(buffer) = "parse_second_order" /\ Classify(buffer) = class

\* the verdict of building and running the candidate of the last call
CandidateRun == cargo_run(Render(Append(prev, buffer)))

\* the verdict of building the candidate of the last call
CandidateBuild == cargo_build(Render(Append(prev, buffer)))

\* the index argument of the last :del line
DelIndex == ParseUsize(LastOf(SplitWhitespace(buffer)))

DelIndexInRange == DelIndex.ok /\ DelIndex.val >= 1 /\ DelIndex.val <= Len(prev)

\* the program text of an empty Body
Scaffold == MAIN_OPEN \o <<"\n">> \o MAIN_CLOSE

\* C1: in every reachable state the rendered Body builds successfully.
C1_BodyBuilds == cargo_build(Render(body)) = "Success"

\* C2: a Declaration whose candidate does not compile is discarded, the Body
\* is the Body before the call and the error is reported to the caller.
C2_DeclErrorDiscarded ==
    (LastWas("Declaration") /\ CandidateBuild = "CompileError")
        => (body = prev /\ result.kind = "CompileError")

\* C3: an Expression whose candidate fails to build or fails when run
\* leaves the Body, contents and length, as it was before the call.
C3_ExprFailureKeepsBody ==
    (LastWas("Expression") /\ CandidateRun \in {"CompileError", "RuntimeFailure"})
        => (body = prev /\ Len(body) = Len(prev))

C3_Witness ==
    /\ buffer = I_exprDiv
    /\ CandidateRun = "RuntimeFailure"
    /\ result.kind = "RuntimeFailure"
    /\ prev # <<>>
    /\ body = prev

\* C4: an Expression whose candidate builds and runs is appended to the
\* Body as its last fragment, and the printed value, if there is one, is
\* what the caller receives.
C4_ExprSuccessAppends ==
    (LastWas("Expression") /\ CandidateRun = "Success")
        => /\ Len(body) = Len(prev) + 1
           /\ SubSeq(body, 1, Len(prev)) = prev
           /\ body[Len(body)] = buffer
           /\ result.ok
           /\ IF \A i \in 1..Len(Trim(buffer)) : IsDigit(Trim(buffer)[i])
              THEN result.kind = "Out" /\ result.text = Trim(buffer)
              ELSE result = PrinterDefault

C4_Witness ==
    /\ buffer = I_expr7
    /\ prev # <<>>
    /\ body = Append(prev, I_expr7)
    /\ result = PrinterItem("Out", <<"7">>)

C6_DelBadIndexRejected ==
    (parse(buffer) = "del" /\ ~DelIndexInRange)
        => (result = Error("InvalidIndex") /\ body = prev)

C6_Witness ==
    /\ buffer = I_del
    /\ prev # <<>>
    /\ body = prev
    /\ result = Error("InvalidIndex")

C8_ResetEmptiesBody ==
    [][/\ parse(buffer') = "reset" => (Len(body') = 0 /\ result' = PrinterSuccess)
       /\ (parse(buffer) = "reset" /\ parse(buffer') = "show")
            => result' = PrinterItem("Code", Scaffold)]_vars

C8_Witness ==
    /\ buffer = S_reset
    /\ Len(prev) = MaxBody
    /\ body = <<>>
    /\ result = PrinterSuccess

\* C9: after N building declaration inputs applied to an empty Body, the
\* Body is those N fragments in the order they were entered.
C9_DeclarationsInOrder == onlyDecl => body = entered

C9_Witness ==
    /\ onlyDecl
    /\ Len(entered) = MaxBody
    /\ entered[1] # entered[2]
    /\ I_declB \in {entered[i] : i \in 1..Len(entered)}
    /\ body = entered

\* the specifier at position i of a request names a filesystem path
IsPathArg(dep, i) == i > 1 /\ dep[i - 1] = PATH_FLAG

\* C10: every path specifier handed to the manifest is absolute, whatever
\* the working directory and whether or not the path typed contains "/".
C10_PathSpecifiersAbsolute ==
    \A k \in 1..Len(manifest) :
        \A i \in 1..Len(manifest[k]) :
            IsPathArg(manifest[k], i) => IsAbsolute(manifest[k][i])

C_loadedGood == <<"c", ";">>

\* the last call was :load with a path, or :reload with a saved path
LoadedKnownPath ==
    \/ parse(buffer) = "load" /\ Len(SplitWhitespace(buffer)) >= 2
    \/ parse(buffer) = "reload" /\ lastLoaded # <<>>

\* C11: after :load <path> or :reload with a known path the Body keeps no
\* fragment from before the call: it is the loaded file's contents without
\* the entry point when the build succeeded, and empty on every failure.
C11_LoadReplacesBody ==
    LoadedKnownPath =>
        IF lastLoaded = <<F_g>>
        THEN result = PrinterSuccess /\ body = <<C_loadedGood>>
        ELSE result # PrinterSuccess /\ body = <<>>

C11_Witness ==
    /\ buffer = I_reload
    /\ lastLoaded = <<F_g>>
    /\ Len(prev) = MaxBody
    /\ body = <<C_loadedGood>>
    /\ result = PrinterSuccess

\* C19: :load without a path and :reload without a saved path return an
\* error and leave the Body and the saved path as they were; :load with a
\* path that cannot be read returns an error with the Body already emptied
\* and the path already saved.
C19_ResetOnlyOncePathKnown ==
    [][/\ (parse(buffer') = "load" /\ Len(SplitWhitespace(buffer')) < 2)
            => (~result'.ok /\ body' = body /\ lastLoaded' = lastLoaded)
       /\ (parse(buffer') = "reload" /\ lastLoaded = <<>>)
            => (~result'.ok /\ body' = body /\ lastLoaded' = lastLoaded)
       /\ buffer' = I_loadMissing
            => (~result'.ok /\ body' = <<>> /\ lastLoaded' = <<F_n>>)]_vars

C19_Witness ==
    /\ buffer = I_load
    /\ ~result.ok
    /\ prev # <<>>
    /\ body = prev
    /\ lastLoaded = <<>>

\* the step s is among the steps of the last call
Did(s) == \E i \in 1..Len(steps) : steps[i] = s

\* C12: when re-deriving the Body from the edited working file fails, the
\* Body is reset to empty, neither merged nor left as before the edit, and
\* the error is returned.
C12_EditResyncFailureResets ==
    (parse(buffer) = "extern_edit" /\ Did("update_failed"))
        => (body = <<>> /\ ~result.ok /\ result.kind = "ResyncFailed")

C12_Witness ==
    /\ buffer = I_editVi
    /\ Did("update_failed")
    /\ Len(prev) = MaxBody
    /\ body = <<>>
    /\ ~result.ok

\* C20: an :edit that fails before the re-derivation (no editor named, the
\* working file not written, the editor not spawned or not waited for)
\* returns an error with the Body as it was before the directive, and a
\* re-derivation that succeeds reports success without resetting.
C20_EditResetsOnlyOnResyncFailure ==
    parse(buffer) = "extern_edit" =>
        /\ ~Did("update") => (~result.ok /\ body = prev /\ ~Did("reset"))
        /\ (Did("update") /\ ~Did("update_failed"))
              => (result = PrinterItem("Ok", SUCCESS) /\ ~Did("reset"))

C20_Witness ==
    /\ buffer = I_editNo
    /\ Did("spawn")
    /\ ~Did("update")
    /\ ~result.ok
    /\ Len(prev) = MaxBody
    /\ body = prev

\* C13: a :type request never changes the Body, whatever the toolchain
\* prints for the shadow program.
C13_TypeKeepsBody == (parse(buffer) = "show_type" /\ alive) => body = prev

C13_Witness ==
    /\ buffer = I_type7
    /\ alive
    /\ Did("shadow")
    /\ result = PrinterItem("Ok", <<"i", "n", "t", "e", "g", "e", "r">>)
    /\ Len(prev) = MaxBody
    /\ body = prev

\* C14: no error condition terminates the process: every operation returns
\* to the caller, with a success value or a recoverable error, and the
\* session goes on accepting input.
C14_ProcessSurvives == alive /\ result.kind # "Panic"

(* ---------------------- classification of free-form lines ------------- *)

\* a terminated statement typed between blanks
L_stmtPadded == <<" ", "x", ";", " ">>

\* free-form lines: one per marker, padded and unpadded, a marker that
\* trimming shortens, a marker without its blank, terminated and
\* unterminated text, and text that trims to nothing
ClassifyLines ==
    {
      <<"f", "n", " ", "f">>,
      <<" ", "a", "s", "y", "n", "c", " ", "f", "n", " ", "f">>,
      <<"e", "n", "u", "m", " ", "E", " ">>,
      <<"s", "t", "r", "u", "c", "t", " ", "S">>,
      <<"t", "r", "a", "i", "t", " ", "T">>,
      <<" ", "i", "m", "p", "l", " ", "S">>,
      <<"#", "[", "a", "]">>,
      <<"p", "u", "b", " ", "x">>,
      <<"f", "n", " ">>,
      <<"f", "n", "f">>,
      <<"x", ";">>,
      <<"l", "e", "t", " ", "x", " ", "=", " ", "1", "0">>,
      <<>>,
      <<" ", " ">>,
      L_stmtPadded, I_expr7, I_exprBad }

classify_line ==
    \E line \in ClassifyLines :
        /\ parse(line) = "parse_second_order"
        /\ SecondOrder(line)

\* free-form lines and the command that empties the Body
NextClassify == classify_line \/ reset

SpecClassify == Init /\ [][NextClassify]_vars

\* the markers of a declaration
Markers ==
    { FUNCTION_DEF, ASYNC_FUNCTION_DEF, ENUM_DEF, STRUCT_DEF, TRAIT_DEF,
      IMPL, ATTRIBUTE, PUB }

\* C15: a free-form line is classified by its trimmed text alone: empty
\* text changes no state; text ending in ';' or starting with a marker is
\* inserted as typed without being run; any other text is run; and each
\* line takes exactly one of the three paths.
C15_ClassifiedByTrimmedText ==
    [][parse(buffer') = "parse_second_order" =>
         LET t == Trim(buffer')
             empty == /\ UNCHANGED <<body, manifest, cwd, lastLoaded, alive>>
                      /\ result' = PrinterDefault
                      /\ steps' = <<>>
             declaration == /\ body' = Append(body, buffer')
                            /\ result' = PrinterDefault
                            /\ steps' = <<>>
             expression == steps' = <<"run">>
         IN  /\ IF t = <<>> THEN empty
                ELSE IF \/ t[Len(t)] = ";"
                        \/ \E m \in Markers :
                              Len(m) <= Len(t) /\ SubSeq(t, 1, Len(m)) = m
                     THEN declaration
                     ELSE expression
             /\ ~(empty /\ declaration)
             /\ ~(empty /\ expression)
             /\ ~(declaration /\ expression)]_vars

C15_Witness ==
    /\ buffer = L_stmtPadded
    /\ prev # <<>>
    /\ body = Append(prev, buffer)
    /\ steps = <<>>

\* the specifiers typed on the last :add line
AddArgs(line) == Skip1(SplitWhitespace(line))

\* C16: :add validates, then appends to the manifest, then rebuilds: when a
\* path specifier cannot be canonicalized the call fails with
\* InvalidDependencyPath, the manifest holds no specifier of the request
\* and neither the append nor the rebuild was started.
C16_AddDepOrder ==
    [][parse(buffer') = "add_dep" =>
         /\ \E n \in 0..3 : steps' = SubSeq(<<"canonicalize", "cargo_add", "build">>, 1, n)
         /\ CanonicalizeFails(cwd, AddArgs(buffer'))
              => /\ result' = Error("InvalidDependencyPath")
                 /\ manifest' = manifest
                 /\ steps' = <<"canonicalize">>]_vars

C16_Witness ==
    /\ buffer = I_addMixed
    /\ result = Error("InvalidDependencyPath")
    /\ steps = <<"canonicalize">>
    /\ manifest = <<>>

\* C17: when the rebuild that follows a successful append fails, the call
\* reports the failure, the appended request stays in the manifest and the
\* Body is the Body before the :add.
C17_AddDepNoRollback ==
    [][(/\ parse(buffer') = "add_dep"
        /\ ~CanonicalizeFails(cwd, AddArgs(buffer'))
        /\ AddArgs(buffer') # <<>>
        /\ cargo_build(Render(body)) # "Success")
         => /\ ~result'.ok
            /\ Len(manifest') = Len(manifest) + 1
            /\ SubSeq(manifest', 1, Len(manifest)) = manifest
            /\ Len(manifest'[Len(manifest')]) = Len(AddArgs(buffer'))
            /\ body' = body]_vars

C17_Witness ==
    /\ buffer = I_addDot
    /\ result = Error("BuildFailed")
    /\ Did("build")
    /\ Len(manifest) = 1
    /\ IsAbsolute(manifest[1][2])
    /\ body # <<>>
    /\ body = prev

\* C18: the Body changes only when the candidate of the input was
\* evaluated and committed on a non-error verdict, or by an explicit
\* reset, pop or del.
C18_BodyChangesOnlyOnCommit ==
    body # prev =>
        \/ parse(buffer) \in {"reset", "pop", "del"}
        \/ LastWas("Declaration") /\ Did("build") /\ CandidateBuild = "Success"
        \/ LastWas("Expression") /\ Did("run") /\ CandidateRun = "Success"

====
